---- MODULE Spec2Model ----
(***************************************************************************)
(* Model of streamlit_app.py: one analysis request of the shipping         *)
(* consolidation dashboard.  load_data() reads and parses the uploaded     *)
(* CSV, main() filters it by port and runs the three tabs (lane            *)
(* consolidation, movement distribution, transit time) over one shared     *)
(* table df, which the tabs annotate in place with derived columns.        *)
(*                                                                         *)
(* Numbers: volumes are whole cubic metres; a mean or a percentage is an   *)
(* exact fraction [num, den] in lowest terms, and the float NaN that       *)
(* pandas/numpy produce (0/0, or a reduction over nothing) is the          *)
(* fraction with den = 0.  Absent cells (NaN, NaT, <NA>) are the empty     *)
(* tuple <<>>, a present value v is <<v>> (a date is <<y, m, d>>).         *)
(***************************************************************************)
EXTENDS Integers, Sequences, FiniteSets

VARIABLES upload, input, df, pc, runs, out1, out2, out3

vars == <<upload, input, df, pc, runs, out1, out2, out3>>

(***************************************************************************)
(* Bounds of the model.                                                    *)
(***************************************************************************)
MaxRows == 2
MaxRuns == 4

(***************************************************************************)
(* Program constants.                                                      *)
(***************************************************************************)
ConsolidationThreshold == 18
ColoadThreshold == 18
Container40 == 45
Container20 == 18
Potential20 == 18
Potential40 == 45

None == <<>>
Some(x) == <<x>>
IsSome(o) == o # <<>>
Val(o) == o[1]

RequiredColumns == {"POL", "POD", "ETS", "ATA", "Shipment Type", "Movement", "Volume in cbm"}
AllColumns == RequiredColumns \cup {"ETA"}

(***************************************************************************)
(* Sequence helpers.                                                        *)
(***************************************************************************)
Range(s) == {s[i] : i \in 1..Len(s)}

RECURSIVE SumSet(_, _)
\* Sum of f[x] over the finite set S.
SumSet(S, f) ==
    IF S = {} THEN 0
    ELSE LET x == CHOOSE y \in S : TRUE
         IN f[x] + SumSet(S \ {x}, f)

Abs(n) == IF n < 0 THEN -n ELSE n

RECURSIVE GCD(_, _)
GCD(a, b) == IF b = 0 THEN a ELSE GCD(b, a % b)

(***************************************************************************)
(* Floats as exact fractions.  Div(a, b) is a / b for float operands:      *)
(* 0/0 is NaN (numpy float division raises no exception).                  *)
(***************************************************************************)
NaN == [num |-> 0, den |-> 0]
IsNaN(q) == q.den = 0
Rat(n, d) ==
    LET g == GCD(Abs(n), Abs(d))
    IN IF g = 0 THEN NaN
       ELSE IF d < 0 THEN [num |-> (0 - n) \div g, den |-> (0 - d) \div g]
       ELSE [num |-> n \div g, den |-> d \div g]
Num(n) == [num |-> n, den |-> 1]
Div(a, b) ==
    IF IsNaN(a) \/ IsNaN(b) THEN NaN
    ELSE IF b.num = 0 THEN NaN   \* only 0/0 arises: the numerators are sums within the denominator
    ELSE Rat(a.num * b.den, a.den * b.num)
Mul(a, b) == IF IsNaN(a) \/ IsNaN(b) THEN NaN ELSE Rat(a.num * b.num, a.den * b.den)
Add(a, b) == IF IsNaN(a) \/ IsNaN(b) THEN NaN ELSE Rat(a.num * b.den + b.num * a.den, a.den * b.den)
\* a >= b and a < b on floats; every comparison with NaN is false.
Geq(a, b) == ~IsNaN(a) /\ ~IsNaN(b) /\ a.num * b.den >= b.num * a.den
Lt(a, b) == ~IsNaN(a) /\ ~IsNaN(b) /\ a.num * b.den < b.num * a.den

(***************************************************************************)
(* Calendar: proleptic Gregorian ordinals and the ISO-8601 week number,    *)
(* as pandas computes Series.dt.isocalendar().week and timedelta .days.    *)
(***************************************************************************)
IsLeap(y) == (y % 4 = 0) /\ ((y % 100 # 0) \/ (y % 400 = 0))
DaysInMonth(y, m) ==
    IF m = 2 THEN (IF IsLeap(y) THEN 29 ELSE 28)
    ELSE IF m \in {4, 6, 9, 11} THEN 30 ELSE 31
DaysBeforeYear(y) ==
    (y - 1) * 365 + ((y - 1) \div 4) - ((y - 1) \div 100) + ((y - 1) \div 400)
RECURSIVE DaysBeforeMonth(_, _)
DaysBeforeMonth(y, m) ==
    IF m = 1 THEN 0 ELSE DaysBeforeMonth(y, m - 1) + DaysInMonth(y, m - 1)
\* date = <<y, m, d>>
Ordinal(date) == DaysBeforeYear(date[1]) + DaysBeforeMonth(date[1], date[2]) + date[3]
\* Monday of ISO week 1 of year y (the week holding the year's first Thursday).
IsoWeek1Monday(y) ==
    LET firstday == DaysBeforeYear(y) + 1
        firstweekday == (firstday + 6) % 7
        monday == firstday - firstweekday
    IN IF firstweekday > 3 THEN monday + 7 ELSE monday
\* Variant: the week keyed together with its calendar year.
ISOWeekWithYear(date) ==
    LET y == date[1]
        today == Ordinal(date)
        w0 == (today - IsoWeek1Monday(y)) \div 7
    IN y * 100 + w0 + 1
\* ISO week number alone, 1..53; the ISO week-year is computed and dropped.
ISOWeek(date) ==
    LET y == date[1]
        today == Ordinal(date)
        w0 == (today - IsoWeek1Monday(y)) \div 7
    IN IF today < IsoWeek1Monday(y)
       THEN ((today - IsoWeek1Monday(y - 1)) \div 7) + 1
       ELSE IF w0 >= 52 /\ today >= IsoWeek1Monday(y + 1) THEN 1
       ELSE w0 + 1
\* Series.dt.to_period('M'): the calendar year-month.
MonthPeriod(date) == <<date[1], date[2]>>

(***************************************************************************)
(* load_data: a CSV date cell is text DD/MM/YYYY, here <<dd, mm, yyyy>>,   *)
(* or empty.  pd.to_datetime(format='%d/%m/%Y') turns an empty cell into   *)
(* NaT and raises on a cell that is no calendar date.                      *)
(***************************************************************************)
Parseable(cell) ==
    \/ cell = None
    \/ /\ cell[2] \in 1..12
       /\ cell[1] \in 1..DaysInMonth(cell[3], cell[2])
ParseDate(cell) == IF cell = None THEN None ELSE <<cell[3], cell[2], cell[1]>>

(***************************************************************************)
(* Sort orders.  groupby() returns its groups in ascending key order and   *)
(* Python compares strings by code point; over the values of this model    *)
(* that order is listed here.  A movement label is a tuple of characters   *)
(* so that str.contains can be computed.                                   *)
(***************************************************************************)
PortOrder == <<"CNSHA", "NLRTM", "SGSIN", "USLAX">>
TypeOrder == <<"Carriers LCL", "FCL", "LCL">>
GatewayA == <<"G", "a", "t", "e", "w", "a", "y", " ", "A">>
CFSHub == <<"C", "F", "S", " ", "H", "u", "b">>
CFSGateway == <<"C", "F", "S", "-", "G", "a", "t", "e", "w", "a", "y">>
Direct == <<"D", "i", "r", "e", "c", "t">>
LowerGateway == <<"g", "a", "t", "e", "w", "a", "y">>
MovementOrder == <<CFSHub, CFSGateway, Direct, GatewayA, LowerGateway>>

IndexOf(order, x) == CHOOSE i \in 1..Len(order) : order[i] = x
PortRank(p) == IndexOf(PortOrder, p)
TypeRank(t) == IndexOf(TypeOrder, t)
\* Ranks of the group keys: lexicographic in the key's columns.
LaneRank(k) == (PortRank(k[1]) * 8 + PortRank(k[2])) * 8 + TypeRank(k[3])
WeekRank(k) == (PortRank(k[1]) * 8 + PortRank(k[2])) * 64 + k[3]
RouteRank(k) == PortRank(k[1]) * 8 + PortRank(k[2])
MonthRank(k) == k[1] * 12 + k[2]

RECURSIVE SortByRank(_, _)
\* The keys of S in ascending order of rank[k] (rank is one-to-one on S).
SortByRank(S, rank) ==
    IF S = {} THEN <<>>
    ELSE LET m == CHOOSE x \in S : \A y \in S : rank[x] <= rank[y]
         IN <<m>> \o SortByRank(S \ {m}, rank)

\* Variant: str.startswith(sub) in place of str.contains(sub).
StartsWith(s, sub) == Len(s) >= Len(sub) /\ SubSeq(s, 1, Len(sub)) = sub
\* pandas str.contains(sub): sub occurs in s, case-sensitive.
Contains(s, sub) ==
    \E i \in 1..(Len(s) - Len(sub) + 1) : SubSeq(s, i, i + Len(sub) - 1) = sub
Gateway == <<"G", "a", "t", "e", "w", "a", "y">>
CFS == <<"C", "F", "S">>

(***************************************************************************)
(* Reductions over the rows of a table (a sequence of records).            *)
(***************************************************************************)
\* Series.sum(): the sum of the column over the rows chosen (0 for none).
VolSum(t, I) == SumSet(I, [i \in I |-> t[i].vol])
SetMin(S) == CHOOSE x \in S : \A y \in S : x <= y
SetMax(S) == CHOOSE x \in S : \A y \in S : x >= y

(***************************************************************************)
(* Tab 1, lines 88-98: weekly volume per lane and shipment type.           *)
(***************************************************************************)
\* df['Week'] = df['ETS'].dt.isocalendar().week
WithWeek(t) ==
    [t EXCEPT
     !.cols = t.cols \cup {"Week"},
     !.rows = [i \in 1..Len(t.rows) |->
                 [t.rows[i] EXCEPT !.week =
                     IF t.rows[i].ets = None THEN None
                     ELSE Some(ISOWeek(t.rows[i].ets))]]]

\* groupby(['POL','POD','Week','Shipment Type'])['Volume in cbm'].sum();
\* a row whose Week is <NA> belongs to no group.
lane_analysis(rows) ==
    LET keys == {<<rows[i].pol, rows[i].pod, Val(rows[i].week), rows[i].type>> :
                    i \in {j \in 1..Len(rows) : IsSome(rows[j].week)}}
    IN {[pol |-> k[1], pod |-> k[2], week |-> k[3], type |-> k[4],
         vol |-> VolSum(rows, {i \in 1..Len(rows) :
                    /\ IsSome(rows[i].week)
                    /\ <<rows[i].pol, rows[i].pod, Val(rows[i].week), rows[i].type>> = k})] :
        k \in keys}

\* groupby(['POL','POD','Shipment Type']).agg(mean, count) of the weekly sums.
lane_summary(rows) ==
    LET la == lane_analysis(rows)
        keys == {<<g.pol, g.pod, g.type>> : g \in la}
        grp(k) == {g \in la : <<g.pol, g.pod, g.type>> = k}
        order == SortByRank(keys, [k \in keys |-> LaneRank(k)])
    IN [i \in 1..Len(order) |->
          [pol |-> order[i][1], pod |-> order[i][2], type |-> order[i][3],
           avg |-> Rat(SumSet(grp(order[i]), [g \in grp(order[i]) |-> g.vol]),
                       Cardinality(grp(order[i]))),
           weeks |-> Cardinality(grp(order[i]))]]

(***************************************************************************)
(* Tab 1, lines 100-110: the two opportunity sets.                         *)
(***************************************************************************)
\* Variant: the threshold taken as an exclusive lower bound.
IsConsolidationStrict(r) ==
    r.type = "Carriers LCL" /\ Lt(Num(ConsolidationThreshold), r.avg)
IsConsolidation(r) == r.type = "Carriers LCL" /\ Geq(r.avg, Num(ConsolidationThreshold))
IsCoload(r) == r.type = "LCL" /\ Lt(r.avg, Num(ColoadThreshold))

IndexPermutations(n) == {p \in [1..n -> 1..n] : \A i, j \in 1..n : p[i] = p[j] => i = j}
Descending(t) == \A i \in 1..(Len(t) - 1) : Geq(t[i].avg, t[i + 1].avg)
\* sort_values('Avg Weekly Volume', ascending=False) with the default
\* kind='quicksort': numpy's introsort, which is not a stable sort (only
\* 'mergesort'/'stable' are), so rows with equal keys may come out in any
\* order.  The outcomes are the descending arrangements of the rows.
sort_values(t) ==
    {s \in {[i \in 1..Len(t) |-> t[p[i]]] : p \in IndexPermutations(Len(t))} : Descending(s)}

RECURSIVE SumAvg(_)
\* Series.sum() of the 'Avg Weekly Volume' column (0.0 for no rows).
SumAvg(t) == IF t = <<>> THEN Num(0) ELSE Add(Head(t).avg, SumAvg(Tail(t)))

Tag(t, label) ==
    [i \in 1..Len(t) |->
       [pol |-> t[i].pol, pod |-> t[i].pod, type |-> t[i].type, avg |-> t[i].avg,
        weeks |-> t[i].weeks, Opportunity |-> label]]

(***************************************************************************)
(* Tab 1, lines 159-202: volume per shipment type and the weekly           *)
(* container sizing of the LCL rows.                                       *)
(***************************************************************************)
consol_data(rows) ==
    LET keys == {rows[i].type : i \in 1..Len(rows)}
        order == SortByRank(keys, [k \in keys |-> TypeRank(k)])
        grp(k) == {i \in 1..Len(rows) : rows[i].type = k}
    IN [i \in 1..Len(order) |->
          [type |-> order[i], sum |-> VolSum(rows, grp(order[i])),
           count |-> Cardinality(grp(order[i]))]]

\* Variant: the 40ft threshold taken as exclusive.
ContainerLabelStrict(x) ==
    IF x > Container40 THEN "40ft Container"
    ELSE IF x >= Container20 THEN "20ft Container"
    ELSE "Combine Shipments"
ContainerLabel(x) ==
    IF x >= Container40 THEN "40ft Container"
    ELSE IF x >= Container20 THEN "20ft Container"
    ELSE "Combine Shipments"

\* df[df['Shipment Type'] == 'LCL'].groupby(['POL','POD','Week']).sum(), labelled.
weekly_vol(rows) ==
    LET lcl == {i \in 1..Len(rows) : rows[i].type = "LCL" /\ IsSome(rows[i].week)}
        keys == {<<rows[i].pol, rows[i].pod, Val(rows[i].week)>> : i \in lcl}
        order == SortByRank(keys, [k \in keys |-> WeekRank(k)])
        grp(k) == {i \in lcl : <<rows[i].pol, rows[i].pod, Val(rows[i].week)>> = k}
    IN [i \in 1..Len(order) |->
          [pol |-> order[i][1], pod |-> order[i][2], week |-> order[i][3],
           vol |-> VolSum(rows, grp(order[i])),
           Opportunity |-> ContainerLabel(VolSum(rows, grp(order[i])))]]

\* Everything tab 1 hands to st.dataframe / st.metric / the charts, for each
\* outcome of the two sorts.
Tab1Outputs(t) ==
    LET ls == lane_summary(t.rows)
        wv == weekly_vol(WithWeek(t).rows)
    IN {[lane_summary |-> ls,
         consolidation_opportunities |-> co,
         coload_opportunities |-> cl,
         combined_opportunities |->
             Tag(co, "Convert to Consolidation") \o Tag(cl, "Convert to Co-load"),
         n_consolidation |-> Len(co),
         n_coload |-> Len(cl),
         total_volume_impact |-> Add(SumAvg(co), SumAvg(cl)),
         consol_data |-> consol_data(t.rows),
         weekly_vol |-> wv,
         total_volume |-> VolSum(wv, 1..Len(wv)),
         potential_20ft |-> Cardinality({i \in 1..Len(wv) : wv[i].vol >= Potential20}),
         potential_40ft |-> Cardinality({i \in 1..Len(wv) : wv[i].vol >= Potential40})] :
        co \in sort_values(SelectSeq(ls, IsConsolidation)),
        cl \in sort_values(SelectSeq(ls, IsCoload))}

(***************************************************************************)
(* Tab 2, lines 207-241: movement distribution and monthly trend.          *)
(***************************************************************************)
MovementRank(m) == IndexOf(MovementOrder, m)

\* groupby('Movement') over the LCL rows; a row without a label is in no group.
movement_data(rows) ==
    LET lcl == {i \in 1..Len(rows) : rows[i].type = "LCL" /\ IsSome(rows[i].movement)}
        keys == {Val(rows[i].movement) : i \in lcl}
        order == SortByRank(keys, [k \in keys |-> MovementRank(k)])
        grp(k) == {i \in lcl : Val(rows[i].movement) = k}
    IN [i \in 1..Len(order) |->
          [movement |-> order[i], sum |-> VolSum(rows, grp(order[i])),
           count |-> Cardinality(grp(order[i]))]]

\* df['Month'] = df['ETS'].dt.to_period('M')
WithMonth(t) ==
    [t EXCEPT
     !.cols = t.cols \cup {"Month"},
     !.rows = [i \in 1..Len(t.rows) |->
                 [t.rows[i] EXCEPT !.month =
                     IF t.rows[i].ets = None THEN None
                     ELSE Some(MonthPeriod(t.rows[i].ets))]]]

monthly_util(rows) ==
    LET lcl == {i \in 1..Len(rows) : rows[i].type = "LCL" /\ IsSome(rows[i].month)}
        keys == {Val(rows[i].month) : i \in lcl}
        order == SortByRank(keys, [k \in keys |-> MonthRank(k)])
        grp(k) == {i \in lcl : Val(rows[i].month) = k}
    IN [i \in 1..Len(order) |->
          [month |-> order[i], sum |-> VolSum(rows, grp(order[i])),
           count |-> Cardinality(grp(order[i]))]]

SumOfSums(md, I) == SumSet(I, [i \in I |-> md[i].sum])
\* movement_data[movement_data['Movement'].str.contains(sub)]['sum'].sum()
\*     / movement_data['sum'].sum() * 100
Pct(md, sub) ==
    Mul(Div(Num(SumOfSums(md, {i \in 1..Len(md) : Contains(md[i].movement, sub)})),
            Num(SumOfSums(md, 1..Len(md)))),
        Num(100))

\* What tab 2 renders: the two charts, then the two metrics.  On a Movement
\* column of dtype float64 the .str accessor of line 235 raises
\* AttributeError, after the charts and before either metric (None).
Tab2Output(t) ==
    LET md == movement_data(t.rows)
    IN [movement_data |-> md,
        monthly_util |-> monthly_util(t.rows),
        gateway_pct |-> IF t.movement_dtype = "object" THEN Some(Pct(md, Gateway)) ELSE None,
        cfs_pct |-> IF t.movement_dtype = "object" THEN Some(Pct(md, CFS)) ELSE None]

(***************************************************************************)
(* Tab 3, lines 246-283: transit days.                                     *)
(***************************************************************************)
\* Variant: a negative duration clamped to zero.
TransitDaysClamped(r) ==
    IF r.ata = None \/ r.ets = None THEN None
    ELSE IF Ordinal(r.ata) < Ordinal(r.ets) THEN Some(0)
    ELSE Some(Ordinal(r.ata) - Ordinal(r.ets))
\* (df['ATA'] - df['ETS']).dt.days: NaN when either date is NaT.
TransitDays(r) ==
    IF r.ata = None \/ r.ets = None THEN None
    ELSE Some(Ordinal(r.ata) - Ordinal(r.ets))

\* Variant: the rows without an arrival date dropped from the shared table.
HasArrival(r) == r.ata # None
WithTransitDropna(t) ==
    [t EXCEPT
     !.cols = t.cols \cup {"Transit Days"},
     !.rows = [i \in 1..Len(SelectSeq(t.rows, HasArrival)) |->
                 [SelectSeq(t.rows, HasArrival)[i] EXCEPT
                     !.transit = TransitDays(SelectSeq(t.rows, HasArrival)[i])]]]

\* df['Transit Days'] = (df['ATA'] - df['ETS']).dt.days
WithTransit(t) ==
    [t EXCEPT
     !.cols = t.cols \cup {"Transit Days"},
     !.rows = [i \in 1..Len(t.rows) |-> [t.rows[i] EXCEPT !.transit = TransitDays(t.rows[i])]]]

\* mean / min / max of 'Transit Days' over the rows I, skipping NaN; NaN for none.
TransitMean(rows, I) ==
    LET V == {i \in I : IsSome(rows[i].transit)}
    IN IF V = {} THEN NaN
       ELSE Rat(SumSet(V, [i \in V |-> Val(rows[i].transit)]), Cardinality(V))
TransitMin(rows, I) ==
    LET V == {Val(rows[i].transit) : i \in {j \in I : IsSome(rows[j].transit)}}
    IN IF V = {} THEN NaN ELSE Num(SetMin(V))
TransitMax(rows, I) ==
    LET V == {Val(rows[i].transit) : i \in {j \in I : IsSome(rows[j].transit)}}
    IN IF V = {} THEN NaN ELSE Num(SetMax(V))

transit_gap(rows) ==
    LET keys == {<<rows[i].pol, rows[i].pod>> : i \in 1..Len(rows)}
        order == SortByRank(keys, [k \in keys |-> RouteRank(k)])
        grp(k) == {i \in 1..Len(rows) : <<rows[i].pol, rows[i].pod>> = k}
    IN [i \in 1..Len(order) |->
          [pol |-> order[i][1], pod |-> order[i][2],
           mean |-> TransitMean(rows, grp(order[i])),
           min |-> TransitMin(rows, grp(order[i])),
           max |-> TransitMax(rows, grp(order[i]))]]

Tab3Output(t) ==
    [box |-> [i \in 1..Len(t.rows) |->
                [pol |-> t.rows[i].pol, pod |-> t.rows[i].pod, transit |-> t.rows[i].transit]],
     transit_gap |-> transit_gap(t.rows),
     avg_transit |-> TransitMean(t.rows, 1..Len(t.rows)),
     min_transit |-> TransitMin(t.rows, 1..Len(t.rows)),
     max_transit |-> TransitMax(t.rows, 1..Len(t.rows))]

(***************************************************************************)
(* The request: load_data(), the port filters, then the three tabs.        *)
(* pc is main()'s position; "no_file" and "load_error" are load_data()     *)
(* returning None (st.warning / st.error), "crashed" is an exception       *)
(* leaving main() with whatever was rendered before it still on the page.  *)
(***************************************************************************)
EmptyTable == [cols |-> {}, rows |-> <<>>, movement_dtype |-> "object"]

\* pd.read_csv: a column whose cells are all empty is read as float64 (NaN),
\* one with a text cell as object.
MovementDtype(file) ==
    IF \A i \in 1..Len(file.rows) : file.rows[i].movement = None
    THEN "float64" ELSE "object"

\* The date cells pd.to_datetime is applied to: the date columns present.
DateCells(file) ==
    {file.rows[i].ets : i \in {j \in 1..Len(file.rows) : "ETS" \in file.cols}}
    \cup {file.rows[i].eta : i \in {j \in 1..Len(file.rows) : "ETA" \in file.cols}}
    \cup {file.rows[i].ata : i \in {j \in 1..Len(file.rows) : "ATA" \in file.cols}}

ParseRow(cols, r) ==
    [r EXCEPT !.ets = IF "ETS" \in cols THEN ParseDate(r.ets) ELSE r.ets,
              !.eta = IF "ETA" \in cols THEN ParseDate(r.eta) ELSE r.eta,
              !.ata = IF "ATA" \in cols THEN ParseDate(r.ata) ELSE r.ata]

\* lines 25-43 and 52-54
LoadData ==
    /\ pc = "load"
    /\ IF upload = None
       THEN pc' = "no_file" /\ df' = df
       ELSE IF \E c \in DateCells(Val(upload)) : ~Parseable(c)
       THEN pc' = "load_error" /\ df' = df
       ELSE /\ pc' = "filter"
            /\ df' = [cols |-> Val(upload).cols,
                      rows |-> [i \in 1..Len(Val(upload).rows) |->
                                  ParseRow(Val(upload).cols, Val(upload).rows[i])],
                      movement_dtype |-> MovementDtype(Val(upload))]
    /\ UNCHANGED <<upload, input, runs, out1, out2, out3>>

\* df[df[col].isin(selected)] when something is selected.
FilterRows(rows, selected_pol, selected_pod) ==
    LET InPol(r) == selected_pol = {} \/ r.pol \in selected_pol
        InPod(r) == selected_pod = {} \/ r.pod \in selected_pod
    IN SelectSeq(SelectSeq(rows, InPol), InPod)

\* lines 62-73: the multiselects offer the ports of the loaded table.
Filter ==
    /\ pc = "filter"
    /\ IF {"POL", "POD"} \subseteq df.cols
       THEN \E selected_pol \in SUBSET {df.rows[i].pol : i \in 1..Len(df.rows)},
               selected_pod \in SUBSET {df.rows[i].pod : i \in 1..Len(df.rows)} :
               /\ df' = [df EXCEPT !.rows = FilterRows(df.rows, selected_pol, selected_pod)]
               /\ input' = df'
               /\ pc' = "tab1"
       ELSE pc' = "crashed" /\ UNCHANGED <<df, input>>
    /\ UNCHANGED <<upload, runs, out1, out2, out3>>

\* lines 82-202
Tab1Step(next) ==
    IF {"ETS", "Shipment Type", "Volume in cbm"} \subseteq df.cols
    THEN /\ df' = WithWeek(df)
         /\ \E o \in Tab1Outputs(WithWeek(df)) : out1' = Some(o)
         /\ pc' = next
         /\ UNCHANGED <<out2, out3>>
    ELSE pc' = "crashed" /\ UNCHANGED <<df, out1, out2, out3>>

\* lines 204-241
Tab2Step(next) ==
    IF {"Shipment Type", "Movement", "Volume in cbm", "ETS"} \subseteq df.cols
    THEN /\ df' = WithMonth(df)
         /\ out2' = Some(Tab2Output(WithMonth(df)))
         /\ pc' = IF df.movement_dtype = "object" THEN next ELSE "crashed"
         /\ UNCHANGED <<out1, out3>>
    ELSE pc' = "crashed" /\ UNCHANGED <<df, out1, out2, out3>>

\* lines 243-283
Tab3Step(next) ==
    IF {"ATA", "ETS"} \subseteq df.cols
    THEN /\ df' = WithTransit(df)
         /\ out3' = Some(Tab3Output(WithTransit(df)))
         /\ pc' = next
         /\ UNCHANGED <<out1, out2>>
    ELSE pc' = "crashed" /\ UNCHANGED <<df, out1, out2, out3>>

Tab1 == pc = "tab1" /\ Tab1Step("tab2") /\ UNCHANGED <<upload, input, runs>>
Tab2 == pc = "tab2" /\ Tab2Step("tab3") /\ UNCHANGED <<upload, input, runs>>
Tab3 == pc = "tab3" /\ Tab3Step("done") /\ UNCHANGED <<upload, input, runs>>

Next == LoadData \/ Filter \/ Tab1 \/ Tab2 \/ Tab3

(***************************************************************************)
(* The analyzers in any order and any number of times over the shared      *)
(* table (pc stays "tab1": the table is loaded and filtered).              *)
(***************************************************************************)
RunTab1 == pc = "tab1" /\ runs < MaxRuns /\ Tab1Step("tab1") /\ runs' = runs + 1 /\ UNCHANGED <<upload, input>>
RunTab2 == pc = "tab1" /\ runs < MaxRuns /\ Tab2Step("tab1") /\ runs' = runs + 1 /\ UNCHANGED <<upload, input>>
RunTab3 == pc = "tab1" /\ runs < MaxRuns /\ Tab3Step("tab1") /\ runs' = runs + 1 /\ UNCHANGED <<upload, input>>

NextAnyOrder == LoadData \/ Filter \/ RunTab1 \/ RunTab2 \/ RunTab3

(***************************************************************************)
(* Uploaded files.                                                         *)
(***************************************************************************)
BaseRow ==
    [pol |-> "CNSHA", pod |-> "NLRTM", ets |-> <<1, 1, 2024>>, eta |-> None,
     ata |-> <<10, 1, 2024>>, type |-> "LCL", movement |-> Some(GatewayA), vol |-> 17,
     week |-> None, month |-> None, transit |-> None]

\* A file holds at least one data row: the column dtypes pandas infers for a
\* file of a header line alone are outside the model, and a table without
\* rows arises from the port filters.
Tables(R) == UNION {[1..n -> R] : n \in 1..MaxRows}
Files(C, R) == {Some([cols |-> c, rows |-> t]) : c \in C, t \in Tables(R)}

InitWith(F) ==
    /\ upload \in F
    /\ input = EmptyTable
    /\ df = EmptyTable
    /\ pc = "load"
    /\ runs = 0
    /\ out1 = None
    /\ out2 = None
    /\ out3 = None

\* Requests of every shape: no file, a missing column, an unparseable date.
RequestRows ==
    {BaseRow,
     [BaseRow EXCEPT !.pol = "SGSIN", !.pod = "USLAX", !.vol = 0],
     [BaseRow EXCEPT !.ets = <<31, 2, 2024>>],
     [BaseRow EXCEPT !.ata = <<1, 13, 2024>>],
     [BaseRow EXCEPT !.eta = <<15, 1, 2024>>, !.type = "Carriers LCL", !.ets = None]}
ColumnSets == {AllColumns} \cup {AllColumns \ {c} : c \in AllColumns}
Init == InitWith({None} \cup Files(ColumnSets, RequestRows))
Spec == Init /\ [][Next]_vars

(***************************************************************************)
(* Files for the lane classifier: two origins, three shipment types, two   *)
(* weeks, volumes on both sides of the 18 cbm threshold.                   *)
(***************************************************************************)
LaneRows ==
    {[BaseRow EXCEPT !.pol = p, !.type = t, !.ets = e, !.vol = v] :
        p \in {"CNSHA", "SGSIN"}, t \in {"LCL", "Carriers LCL", "FCL"},
        e \in {<<1, 1, 2024>>, <<10, 1, 2024>>}, v \in {17, 19}}
InitLane == InitWith(Files({AllColumns}, LaneRows))
SpecLane == InitLane /\ [][Next]_vars

(***************************************************************************)
(* Files for the weekly aggregation: week 1 of 2024, week 2 of 2024, week  *)
(* 1 of 2025, and an empty ETS cell.                                       *)
(***************************************************************************)
WeekRows ==
    {[BaseRow EXCEPT !.type = t, !.ets = e, !.vol = v] :
        t \in {"LCL", "FCL"},
        e \in {<<1, 1, 2024>>, <<10, 1, 2024>>, <<1, 1, 2025>>, None},
        v \in {17, 18, 27}}
InitWeek == InitWith(Files({AllColumns}, WeekRows))
SpecWeek == InitWeek /\ [][Next]_vars

(***************************************************************************)
(* Files for the movement analyzer: labels holding "Gateway", "CFS", both, *)
(* neither, or no label at all.                                            *)
(***************************************************************************)
MoveRows ==
    {[BaseRow EXCEPT !.movement = m, !.vol = v] :
        m \in {Some(GatewayA), Some(CFSHub), Some(CFSGateway), Some(Direct),
               Some(LowerGateway), None},
        v \in {0, 40, 60}}
    \cup {[BaseRow EXCEPT !.type = "FCL", !.vol = 60]}
InitMove == InitWith(Files({AllColumns}, MoveRows))
SpecMove == InitMove /\ [][Next]_vars

(***************************************************************************)
(* Files for the transit analyzer: two routes, arrivals after and before   *)
(* the shipment date, empty date cells.                                    *)
(***************************************************************************)
TransitRows ==
    {[BaseRow EXCEPT !.pol = p, !.ets = e, !.ata = a] :
        p \in {"CNSHA", "SGSIN"},
        e \in {<<1, 1, 2024>>, <<5, 1, 2024>>, None},
        a \in {<<10, 1, 2024>>, <<3, 1, 2024>>, None}}
InitTransit == InitWith(Files({AllColumns}, TransitRows))
SpecTransit == InitTransit /\ [][Next]_vars

(***************************************************************************)
(* Files for the analyzers run in any order.                               *)
(***************************************************************************)
OrderRows ==
    {[BaseRow EXCEPT !.type = t, !.ets = e, !.ata = a, !.movement = m] :
        t \in {"LCL", "Carriers LCL"},
        e \in {<<1, 1, 2024>>, <<10, 2, 2024>>},
        a \in {<<10, 1, 2024>>, None},
        m \in {Some(GatewayA), Some(CFSHub)}}
InitAnyOrder == InitWith(Files({AllColumns}, OrderRows))
SpecAnyOrder == InitAnyOrder /\ [][NextAnyOrder]_vars

(***************************************************************************)
(* Properties.                                                             *)
(***************************************************************************)
Rendered == out1 # None \/ out2 # None \/ out3 # None
Failed == pc \in {"load_error", "crashed"}
\* The uploaded file lacks a required column or holds an unparseable date.
Malformed ==
    /\ upload # None
    /\ \/ ~(RequiredColumns \subseteq Val(upload).cols)
       \/ \E c \in DateCells(Val(upload)) : ~Parseable(c)

\* C4: a request whose dataset lacks a required column or holds an
\* unparseable date fails before any aggregation: a failed request has
\* produced no aggregate, and a malformed dataset never yields one.
C4_FailsBeforeAnyAggregate ==
    /\ Failed => ~Rendered
    /\ Malformed => ~Rendered

\* A well-formed file whose rows the port filters removed entirely, with the
\* request past the filters.
EmptyAfterFilter ==
    /\ upload # None
    /\ ~Malformed
    /\ pc \in {"tab1", "tab2", "tab3", "done", "crashed"}
    /\ input.rows = <<>>
ZeroOrUndefined(q) == q = Num(0) \/ IsNaN(q)

\* C7: with zero records after the filters the request completes without
\* failure, every table is empty, the counts and the volume impact are zero,
\* and every other scalar is zero or an undefined value that is not the NaN
\* of a failed 0/0 (the percentages are the scalars computed by a division).
C7_EmptyInputCompletes ==
    EmptyAfterFilter =>
        /\ pc # "crashed"
        /\ out1 # None =>
              /\ Val(out1).lane_summary = <<>>
              /\ Val(out1).consolidation_opportunities = <<>>
              /\ Val(out1).coload_opportunities = <<>>
              /\ Val(out1).weekly_vol = <<>>
              /\ Val(out1).n_consolidation = 0
              /\ Val(out1).n_coload = 0
              /\ Val(out1).total_volume_impact = Num(0)
              /\ Val(out1).total_volume = 0
              /\ Val(out1).potential_20ft = 0
              /\ Val(out1).potential_40ft = 0
        /\ out2 # None =>
              /\ Val(out2).movement_data = <<>>
              /\ Val(out2).monthly_util = <<>>
              /\ Val(out2).gateway_pct # None /\ ~IsNaN(Val(Val(out2).gateway_pct))
              /\ Val(out2).cfs_pct # None /\ ~IsNaN(Val(Val(out2).cfs_pct))
        /\ out3 # None =>
              /\ Val(out3).transit_gap = <<>>
              /\ ZeroOrUndefined(Val(out3).avg_transit)
              /\ ZeroOrUndefined(Val(out3).min_transit)
              /\ ZeroOrUndefined(Val(out3).max_transit)
\* The same with the percentages left out: what the code does deliver.
C7_EmptyInputRest ==
    EmptyAfterFilter =>
        /\ pc # "crashed"
        /\ out1 # None =>
              /\ Val(out1).lane_summary = <<>>
              /\ Val(out1).weekly_vol = <<>>
              /\ Val(out1).n_consolidation + Val(out1).n_coload = 0
              /\ Val(out1).total_volume_impact = Num(0)
        /\ out2 # None => Val(out2).movement_data = <<>> /\ Val(out2).monthly_util = <<>>
        /\ out3 # None => Val(out3).transit_gap = <<>> /\ IsNaN(Val(out3).avg_transit)
C7_EmptyDone == EmptyAfterFilter /\ pc = "done"

(***************************************************************************)
(* Movement analyzer.  The labels of the model that hold each substring,   *)
(* listed by hand.                                                         *)
(***************************************************************************)
GatewayLabels == {GatewayA, CFSGateway}
CFSLabels == {CFSHub, CFSGateway}
\* Summed volume of the filtered LCL records whose movement label is in L.
LabelVolume(L) ==
    VolSum(input.rows, {i \in 1..Len(input.rows) :
        /\ input.rows[i].type = "LCL"
        /\ input.rows[i].movement # None
        /\ Val(input.rows[i].movement) \in L})
TotalMovementVolume == LabelVolume(Range(MovementOrder))
\* q = 100 * part / total
IsPercentOf(q, part, total) == ~IsNaN(q) /\ q.num * total = 100 * part * q.den

\* Tab 2 has rendered its two percentage metrics.
PctReported == out2 # None /\ Val(out2).gateway_pct # None /\ Val(out2).cfs_pct # None
gateway_pct == Val(Val(out2).gateway_pct)
cfs_pct == Val(Val(out2).cfs_pct)

\* C5: when the LCL volume over all movements is zero, gateway_pct and
\* cfs_pct are an explicit undefined value: not 0% and not the NaN of 0/0.
C5_ZeroTotalUndefined ==
    (PctReported /\ TotalMovementVolume = 0) =>
        /\ ~IsNaN(gateway_pct) /\ gateway_pct # Num(0)
        /\ ~IsNaN(cfs_pct) /\ cfs_pct # Num(0)
\* What the code reports there: NaN for both.
C5_ZeroTotalIsNaN ==
    (PctReported /\ TotalMovementVolume = 0) => IsNaN(gateway_pct) /\ IsNaN(cfs_pct)

\* C9: over the LCL records, gateway_pct is 100 * (volume of the labels
\* holding "Gateway") / (volume of all labels) and cfs_pct the same for
\* "CFS", each on its own: a label with both substrings counts in both, a
\* label with neither or a missing label in neither numerator; "Gateway A"
\* 60 cbm and "CFS Hub" 40 cbm give 60 and 40.
C9_IndependentPercentages ==
    (out2 # None /\ TotalMovementVolume > 0) =>
        /\ PctReported
        /\ IsPercentOf(gateway_pct, LabelVolume(GatewayLabels), TotalMovementVolume)
        /\ IsPercentOf(cfs_pct, LabelVolume(CFSLabels), TotalMovementVolume)
        /\ (LabelVolume({GatewayA}) = 60 /\ LabelVolume({CFSHub}) = 40 /\ TotalMovementVolume = 100)
              => (gateway_pct = Num(60) /\ cfs_pct = Num(40))
\* A label with both substrings beside one with none: the two percentages
\* overlap and do not add up to 100.
C9_Overlap ==
    /\ out2 # None
    /\ LabelVolume({CFSGateway}) = 60
    /\ LabelVolume({Direct, LowerGateway}) = 40
    /\ PctReported
    /\ gateway_pct = Num(60)
    /\ cfs_pct = Num(60)
C9_Example ==
    /\ out2 # None
    /\ LabelVolume({GatewayA}) = 60 /\ LabelVolume({CFSHub}) = 40
    /\ PctReported
    /\ gateway_pct = Num(60) /\ cfs_pct = Num(40)

(***************************************************************************)
(* Lane classifier.                                                        *)
(***************************************************************************)
\* Position of row r in table t (the rows of a summary are distinct).
RowIndex(t, r) == CHOOSE i \in 1..Len(t) : t[i] = r
\* The lanes of the filtered records that have a shipment date.
DatedLanes ==
    {<<input.rows[i].pol, input.rows[i].pod, input.rows[i].type>> :
        i \in {j \in 1..Len(input.rows) : input.rows[j].ets # None}}

\* C1: a LaneSummary row is a consolidation opportunity iff it is
\* "Carriers LCL" with avg_weekly_volume >= 18 (18 included), a co-load
\* opportunity iff it is "LCL" with avg_weekly_volume < 18; any other row is
\* in neither set, no row is in both, and LaneSummary keeps every row.
C1_Classification ==
    out1 # None =>
        LET ls == Val(out1).lane_summary
            cons == Range(Val(out1).consolidation_opportunities)
            cold == Range(Val(out1).coload_opportunities)
        IN /\ \A i \in 1..Len(ls) :
                 /\ ls[i] \in cons <=>
                       (ls[i].type = "Carriers LCL" /\ ls[i].avg.num >= 18 * ls[i].avg.den)
                 /\ ls[i] \in cold <=>
                       (ls[i].type = "LCL" /\ ls[i].avg.num < 18 * ls[i].avg.den)
                 /\ ~(ls[i] \in cons /\ ls[i] \in cold)
           /\ cons \cup cold \subseteq Range(ls)
           /\ {<<ls[i].pol, ls[i].pod, ls[i].type>> : i \in 1..Len(ls)} = DatedLanes
\* A "Carriers LCL" lane averaging exactly 18 (17 and 19 cbm in two weeks)
\* is classified as a consolidation opportunity.
C1_Boundary ==
    /\ out1 # None
    /\ \E r \in Range(Val(out1).consolidation_opportunities) :
          r.avg = Num(18) /\ r.weeks = 2

\* s holds the rows of t that pass Test, each once.
IsSelection(s, t, Test(_)) ==
    /\ Range(s) = {t[i] : i \in {j \in 1..Len(t) : Test(t[j])}}
    /\ \A i, j \in 1..Len(s) : s[i] = s[j] => i = j
\* Rows of s with equal averages stand in the order they have in t.
TiesKeepOrder(s, t) ==
    \A i, j \in 1..Len(s) :
        (i < j /\ s[i].avg = s[j].avg) => RowIndex(t, s[i]) < RowIndex(t, s[j])
PassesConsolidation(r) == r.type = "Carriers LCL" /\ r.avg.num >= 18 * r.avg.den
PassesCoload(r) == r.type = "LCL" /\ r.avg.num < 18 * r.avg.den

\* C10: each opportunity set is a permutation of the LaneSummary rows that
\* pass its predicate, in non-increasing avg_weekly_volume, rows of equal
\* volume keeping their LaneSummary order.
C10_StableDescending ==
    out1 # None =>
        LET ls == Val(out1).lane_summary
            cons == Val(out1).consolidation_opportunities
            cold == Val(out1).coload_opportunities
        IN /\ IsSelection(cons, ls, PassesConsolidation) /\ Descending(cons)
           /\ IsSelection(cold, ls, PassesCoload) /\ Descending(cold)
           /\ TiesKeepOrder(cons, ls) /\ TiesKeepOrder(cold, ls)
\* The part that does hold: a descending permutation.
C10_DescendingPermutation ==
    out1 # None =>
        LET ls == Val(out1).lane_summary
            cons == Val(out1).consolidation_opportunities
            cold == Val(out1).coload_opportunities
        IN /\ IsSelection(cons, ls, PassesConsolidation) /\ Descending(cons)
           /\ IsSelection(cold, ls, PassesCoload) /\ Descending(cold)

(***************************************************************************)
(* Weekly aggregation.  The ISO weeks of the dates of the model, listed by *)
(* hand from the calendar.                                                 *)
(***************************************************************************)
CalendarWeek(date) ==
    CASE date = <<2024, 1, 1>> -> 1
      [] date = <<2024, 1, 10>> -> 2
      [] date = <<2025, 1, 1>> -> 1
LaneOf(r) == <<r.pol, r.pod, r.type>>
AllLanes == {LaneOf(input.rows[i]) : i \in 1..Len(input.rows)}
DatedRows(k) == {i \in 1..Len(input.rows) : LaneOf(input.rows[i]) = k /\ input.rows[i].ets # None}
WeeksOf(k) == {CalendarWeek(input.rows[i].ets) : i \in DatedRows(k)}
LaneVolume(k) == VolSum(input.rows, DatedRows(k))
SummaryRows(k) == {i \in 1..Len(Val(out1).lane_summary) : LaneOf(Val(out1).lane_summary[i]) = k}
\* Row r of LaneSummary is the mean over the distinct week numbers of lane k.
IsWeeklyMean(r, k) ==
    /\ r.weeks = Cardinality(WeeksOf(k))
    /\ ~IsNaN(r.avg)
    /\ r.avg.num * r.weeks = LaneVolume(k) * r.avg.den

\* C3 as stated: every lane present in the filtered dataset has exactly one
\* LaneSummary row, the mean over its distinct ISO week numbers (no year).
C3_EveryLaneHasRow ==
    out1 # None =>
        \A k \in AllLanes :
            /\ Cardinality(SummaryRows(k)) = 1
            /\ \A i \in SummaryRows(k) : IsWeeklyMean(Val(out1).lane_summary[i], k)
\* C3 amended: every lane with at least one record whose ets is present has
\* exactly one LaneSummary row, the mean over its distinct ISO week numbers
\* (no year) of the weekly sums, with weeks_with_shipments their count; a
\* lane whose records all lack ets has no row.
C3_DatedLaneHasRow ==
    out1 # None =>
        \A k \in AllLanes :
            /\ Cardinality(SummaryRows(k)) = (IF DatedRows(k) = {} THEN 0 ELSE 1)
            /\ \A i \in SummaryRows(k) : IsWeeklyMean(Val(out1).lane_summary[i], k)
\* Week 1 of 2024 and week 1 of 2025 of one lane are one week of 35 cbm.
C3_YearsCollide ==
    /\ out1 # None
    /\ Len(input.rows) = 2
    /\ input.rows[1].ets = <<2024, 1, 1>> /\ input.rows[1].vol = 17
    /\ input.rows[2].ets = <<2025, 1, 1>> /\ input.rows[2].vol = 18
    /\ LaneOf(input.rows[1]) = LaneOf(input.rows[2])
    /\ Val(out1).lane_summary[1].avg = Num(35)
    /\ Val(out1).lane_summary[1].weeks = 1

WeekKeyOf(r) == <<r.pol, r.pod, CalendarWeek(r.ets)>>
LCLDated == {i \in 1..Len(input.rows) : input.rows[i].type = "LCL" /\ input.rows[i].ets # None}
SizingRows(k) ==
    {i \in 1..Len(Val(out1).weekly_vol) :
        LET r == Val(out1).weekly_vol[i] IN <<r.pol, r.pod, r.week>> = k}

\* C2: the container-sizing table has exactly one row per (pol, pod, week)
\* with an "LCL" record, its volume the sum of those records, labelled
\* "40ft Container" from 45, "20ft Container" from 18 below 45, "Combine
\* Shipments" below 18.
C2_ContainerSizing ==
    out1 # None =>
        LET wv == Val(out1).weekly_vol
            keys == {WeekKeyOf(input.rows[i]) : i \in LCLDated}
        IN /\ \A k \in keys : Cardinality(SizingRows(k)) = 1
           /\ \A i \in 1..Len(wv) :
                 /\ <<wv[i].pol, wv[i].pod, wv[i].week>> \in keys
                 /\ wv[i].vol = VolSum(input.rows,
                        {j \in LCLDated : WeekKeyOf(input.rows[j]) = <<wv[i].pol, wv[i].pod, wv[i].week>>})
                 /\ wv[i].Opportunity =
                        (IF wv[i].vol >= 45 THEN "40ft Container"
                         ELSE IF wv[i].vol >= 18 THEN "20ft Container"
                         ELSE "Combine Shipments")
\* 18 + 27 cbm of LCL in one week: exactly 45, a 40ft container.
C2_Exactly45 ==
    /\ out1 # None
    /\ \E i \in 1..Len(Val(out1).weekly_vol) :
          /\ Val(out1).weekly_vol[i].vol = 45
          /\ Val(out1).weekly_vol[i].Opportunity = "40ft Container"

(***************************************************************************)
(* Transit analyzer.  The day counts between the dates of the model,       *)
(* listed by hand from the calendar.                                       *)
(***************************************************************************)
CalendarDays(ets, ata) ==
    CASE ets = <<2024, 1, 1>> /\ ata = <<2024, 1, 10>> -> 9
      [] ets = <<2024, 1, 5>> /\ ata = <<2024, 1, 3>> -> -2
      [] ets = <<2024, 1, 1>> /\ ata = <<2024, 1, 3>> -> 2
      [] ets = <<2024, 1, 5>> /\ ata = <<2024, 1, 10>> -> 5
\* The filtered records among I that have both dates.
Timed(I) == {i \in I : input.rows[i].ets # None /\ input.rows[i].ata # None}
Signed(i) == CalendarDays(input.rows[i].ets, input.rows[i].ata)
\* mean, min, max are the statistics of the signed day counts of Timed(I).
IsTransitStats(mean, min, max, I) ==
    IF Timed(I) = {}
    THEN IsNaN(mean) /\ IsNaN(min) /\ IsNaN(max)
    ELSE /\ ~IsNaN(mean)
         /\ mean.num * Cardinality(Timed(I)) =
                SumSet(Timed(I), [i \in Timed(I) |-> Signed(i)]) * mean.den
         /\ \E i \in Timed(I) : min = Num(Signed(i))
         /\ \E i \in Timed(I) : max = Num(Signed(i))
         /\ \A i \in Timed(I) : min.num <= Signed(i) /\ Signed(i) <= max.num
RouteRows(pol, pod) ==
    {i \in 1..Len(input.rows) : input.rows[i].pol = pol /\ input.rows[i].pod = pod}

\* C6: the per-route and the global mean, min and max of the transit days
\* are taken over exactly the records with both ets and ata, each with its
\* signed (ata - ets) in days: a negative value is neither clamped nor
\* dropped, a record without a date is never counted as zero; +9 and -2 on
\* one route give mean 3.5, min -2, max 9.
C6_SignedTransitStats ==
    out3 # None =>
        LET tg == Val(out3).transit_gap
        IN /\ {<<tg[i].pol, tg[i].pod>> : i \in 1..Len(tg)} =
                 {<<input.rows[i].pol, input.rows[i].pod>> : i \in 1..Len(input.rows)}
           /\ \A i \in 1..Len(tg) :
                 IsTransitStats(tg[i].mean, tg[i].min, tg[i].max, RouteRows(tg[i].pol, tg[i].pod))
           /\ IsTransitStats(Val(out3).avg_transit, Val(out3).min_transit,
                             Val(out3).max_transit, 1..Len(input.rows))
           /\ \A i \in 1..Len(tg) :
                 ( /\ {Signed(j) : j \in Timed(RouteRows(tg[i].pol, tg[i].pod))} = {9, -2}
                   /\ Cardinality(Timed(RouteRows(tg[i].pol, tg[i].pod))) = 2 )
                 => ( /\ tg[i].mean = [num |-> 7, den |-> 2]
                      /\ tg[i].min = Num(-2)
                      /\ tg[i].max = Num(9) )
\* One route with +9 and -2: mean 3.5, min -2, max 9.
C6_NegativeCounted ==
    /\ out3 # None
    /\ Len(input.rows) = 2
    /\ {Signed(j) : j \in Timed(1..2)} = {9, -2}
    /\ Len(Val(out3).transit_gap) = 1
    /\ Val(out3).transit_gap[1].mean = [num |-> 7, den |-> 2]
    /\ Val(out3).transit_gap[1].min = Num(-2)
    /\ Val(out3).transit_gap[1].max = Num(9)
\* A record without an arrival date beside one of 9 days: the mean is 9, not 4.5.
C6_AbsentNotZero ==
    /\ out3 # None
    /\ Len(input.rows) = 2
    /\ Cardinality(Timed(1..2)) = 1
    /\ Val(out3).avg_transit = Num(9)

(***************************************************************************)
(* The analyzers in any order.                                             *)
(***************************************************************************)
\* C8: whatever the order and number of runs of the three analyzers over
\* the shared table, each one's tables and metrics are those it computes from
\* the filtered records alone (the opportunity sets up to the order the sort
\* leaves open among equal volumes), and none fails for want of a column.
C8_OrderIndependent ==
    /\ pc # "crashed"
    /\ out1 # None => Val(out1) \in Tab1Outputs(WithWeek(input))
    /\ out2 # None => Val(out2) = Tab2Output(WithMonth(input))
    /\ out3 # None => Val(out3) = Tab3Output(WithTransit(input))
    /\ pc = "tab1" => df.rows = [i \in 1..Len(df.rows) |->
                         [input.rows[i] EXCEPT !.week = df.rows[i].week,
                                               !.month = df.rows[i].month,
                                               !.transit = df.rows[i].transit]]
\* Every analyzer has run, one of them again on the fully annotated table.
C8_AllRunAndRerun ==
    /\ out1 # None /\ out2 # None /\ out3 # None
    /\ runs > 3
    /\ {"Week", "Month", "Transit Days"} \subseteq df.cols
    /\ Len(input.rows) = 2
    /\ input.rows[1].ata = None

====
